---- MODULE Spec2Model ----
(***************************************************************************)
(* State-machine model of src/src/App.tsx: the command interpreter         *)
(* (handleKeyDown, processCommand), the staged deployment pipeline         *)
(* (runDeploymentSimulation) and the two pieces of React state they        *)
(* drive, the log (logs) and the agent status (status).                    *)
(*                                                                         *)
(* Texts are sequences of one-character strings, so that trim(),           *)
(* toLowerCase() and includes() are computed character by character.       *)
(* A log message is a pair (lit, arg) standing for the string lit ++ arg:  *)
(* lit is the literal part of the source string or template, arg the       *)
(* interpolated command text (empty for a plain literal).                  *)
(*                                                                         *)
(* A handler runs to completion before any other handler starts            *)
(* (single-threaded event loop), so each handler call, and each segment    *)
(* of the async pipeline between two awaits, is one action.  A handler     *)
(* is translated into the sequence of state-setter calls it makes, in      *)
(* source order (an "effect" sequence); the action applies that sequence   *)
(* to the state.                                                           *)
(*                                                                         *)
(* processCommand reads status from the closure of the render that        *)
(* created it (line 63), not the latest value passed to setStatus.  The    *)
(* variable rendered is that snapshot.  Setter calls made inside an event  *)
(* handler are committed before the next event is dispatched, so such a    *)
(* step updates rendered itself; setter calls made after an await are      *)
(* committed by a later render, the step Render, and a handler that runs   *)
(* in between still reads the older snapshot.                              *)
(*                                                                         *)
(* LogEntry.timestamp is not modelled.  LogEntry.id is kept beside the     *)
(* log, in the variable ids, and only the specification IdSpec records     *)
(* it; under Spec and FairSpec the entries are considered without id.      *)
(* The time a timer takes (1500, 2000, 1500 ms) is abstracted to           *)
(* "the timer fires at some later step".                                   *)
(***************************************************************************)
EXTENDS Integers, Sequences, FiniteSets, TLC

\* Bound: total number of processCommand calls in a behaviour.
MaxSubmits == 2

(***************************************************************************)
(* Characters and texts                                                    *)
(***************************************************************************)
Upper == <<"A","B","C","D","E","F","G","H","I","J","K","L","M",
           "N","O","P","Q","R","S","T","U","V","W","X","Y","Z">>
Lower == <<"a","b","c","d","e","f","g","h","i","j","k","l","m",
           "n","o","p","q","r","s","t","u","v","w","x","y","z">>

\* Characters String.prototype.trim() strips (those that occur in Texts).
Whitespace == {" ", "\t"}

T_empty    == <<>>
T_space    == <<" ">>
T_help     == <<"h","e","l","p">>
T_clear    == <<"c","l","e","a","r">>
T_deploy   == <<"d","e","p","l","o","y">>
T_ReDeploy == <<" ","R","e","D","e","p","l","o","y"," ">>
T_status   == <<"s","t","a","t","u","s">>
T_analyze  == <<"a","n","a","l","y","z","e">>
T_help_me  == <<"h","e","l","p"," ","m","e">>
T_deploy_clear == <<"d","e","p","l","o","y"," ","c","l","e","a","r">>
T_HELP_pad == <<" ","H","E","L","P"," ">>

\* Values the user can put in the input field (e.target.value).
Texts == {T_empty, T_space, T_help, T_clear, T_deploy, T_ReDeploy,
          T_status, T_analyze, T_help_me, T_deploy_clear, T_HELP_pad}

\* Keys that reach handleKeyDown (e.key).
Keys == {"Enter", "a"}

LowerChar(c) ==
    IF \E i \in 1..Len(Upper) : Upper[i] = c
    THEN Lower[CHOOSE i \in 1..Len(Upper) : Upper[i] = c]
    ELSE c

\* String.prototype.toLowerCase
toLowerCase(s) == [i \in 1..Len(s) |-> LowerChar(s[i])]

SetMin(S) == CHOOSE x \in S : \A y \in S : x <= y
SetMax(S) == CHOOSE x \in S : \A y \in S : x >= y

\* String.prototype.trim: drop leading and trailing whitespace.
trim(s) ==
    LET keep == {i \in 1..Len(s) : s[i] \notin Whitespace}
    IN  IF keep = {} THEN <<>> ELSE SubSeq(s, SetMin(keep), SetMax(keep))

\* String.prototype.includes: sub occurs in s as a contiguous substring.
includes(s, sub) ==
    \E i \in 0..(Len(s) - Len(sub)) : SubSeq(s, i + 1, i + Len(sub)) = sub

\* cmd.trim().toLowerCase()
Normalize(cmd) == toLowerCase(trim(cmd))

(***************************************************************************)
(* Status values and log messages                                          *)
(***************************************************************************)
States == {"idle", "analyzing", "building", "deploying", "error"}
Levels == {"info", "success", "error", "warning"}

MkStatus(s, t, p) == [state |-> s, currentTask |-> t, progress |-> p]

InitialStatus   == MkStatus("idle", "Waiting for command...", 0)
AnalyzingStatus == MkStatus("analyzing", "Analyzing repository structure...", 10)
\* (mutant of BuildingStatus: the progress is reset for the build)
BuildingStatus_Reset == MkStatus("building", "Running build scripts...", 0)
BuildingStatus  == MkStatus("building", "Running build scripts...", 40)
\* (mutant of DeployingStatus: the state is left idle during the upload)
DeployingStatus_Idle == MkStatus("idle", "Uploading assets to edge...", 75)
DeployingStatus == MkStatus("deploying", "Uploading assets to edge...", 75)
CompleteStatus  == MkStatus("idle", "Deployment Complete", 100)

Msg(lit, arg) == [lit |-> lit, arg |-> arg]

EchoMsg(cmd)          == Msg("> ", cmd)
BusyMsg               == Msg("Agent is busy. Please wait.", <<>>)
HelpMsg               == Msg("Available commands: deploy, status, clear, analyze", <<>>)
\* (mutant of NotRecognizedMsg: the normalized text is reported)
NotRecognizedMsg_Normalized(cmd) == Msg("Command not recognized: ", toLowerCase(trim(cmd)))
NotRecognizedMsg(cmd) == Msg("Command not recognized: ", cmd)
InitiatingMsg         == Msg("Initiating deployment sequence...", <<>>)
AnalysisDoneMsg       == Msg("Repository analysis complete. Detected React/Vite project.", <<>>)
ExecBuildMsg          == Msg("Executing: npm run build", <<>>)
BuildDoneMsg          == Msg("Build successful. Output directory: /dist", <<>>)
OptimizingMsg         == Msg("Optimizing assets for edge distribution...", <<>>)
VerifyingMsg          == Msg("Verifying integrity...", <<>>)
DeployedMsg           == Msg("Deployment successful! URL: https://autodeploy-agent.vercel.app", <<>>)

(***************************************************************************)
(* Effects: the state-setter calls a handler makes, in source order        *)
(***************************************************************************)
\* addLog(message, level): setLogs(prev => [...prev, entry])
AddLog(m, lvl)  == [op |-> "addLog", entry |-> [message |-> m, level |-> lvl],
                    value |-> InitialStatus]
\* setLogs([])
SetLogsEmpty    == [op |-> "setLogs", entry |-> [message |-> Msg("", <<>>), level |-> "info"],
                    value |-> InitialStatus]
\* setInput('')
SetInputEmpty   == [op |-> "setInput", entry |-> [message |-> Msg("", <<>>), level |-> "info"],
                    value |-> InitialStatus]
\* setStatus(v)
SetStatus(v)    == [op |-> "setStatus", entry |-> [message |-> Msg("", <<>>), level |-> "info"],
                    value |-> v]

\* (mutant of ApplyEffect: setStatus replaces only the state field)
ApplyEffect_StateOnly(st, e) ==
    CASE e.op = "addLog"    -> [st EXCEPT !.logs = Append(@, e.entry)]
      [] e.op = "setLogs"   -> [st EXCEPT !.logs = <<>>]
      [] e.op = "setInput"  -> [st EXCEPT !.input = <<>>]
      [] e.op = "setStatus" -> [st EXCEPT !.status.state = e.value.state]

\* (mutant of ApplyEffect: addLog puts the new entry first)
ApplyEffect_Prepend(st, e) ==
    CASE e.op = "addLog"    -> [st EXCEPT !.logs = << e.entry >> \o @]
      [] e.op = "setLogs"   -> [st EXCEPT !.logs = <<>>]
      [] e.op = "setInput"  -> [st EXCEPT !.input = <<>>]
      [] e.op = "setStatus" -> [st EXCEPT !.status = e.value]

\* One setter call applied to the component state st = [logs, input, status].
ApplyEffect(st, e) ==
    CASE e.op = "addLog"    -> [st EXCEPT !.logs = Append(@, e.entry)]
      [] e.op = "setLogs"   -> [st EXCEPT !.logs = <<>>]
      [] e.op = "setInput"  -> [st EXCEPT !.input = <<>>]
      [] e.op = "setStatus" -> [st EXCEPT !.status = e.value]

RECURSIVE ApplyEffects(_, _)
ApplyEffects(st, effs) ==
    IF effs = <<>> THEN st
    ELSE ApplyEffects(ApplyEffect(st, Head(effs)), Tail(effs))

(***************************************************************************)
(* runDeploymentSimulation: the code between two suspension points         *)
(***************************************************************************)
\* Positions of a pipeline run: "start" before its first statement, "L89",
\* "L95", "L101" suspended at the await of that source line, "done" after
\* the last statement.
PipelinePcs == {"L89", "L95", "L101", "done"}

\* (mutant of runDeploymentSimulation: building and deploying exchanged)
runDeploymentSimulation_Swapped(pc) ==
    CASE pc = "start" -> << SetStatus(AnalyzingStatus), AddLog(InitiatingMsg, "info") >>
      [] pc = "L89"   -> << AddLog(AnalysisDoneMsg, "success"),
                            SetStatus(DeployingStatus), AddLog(ExecBuildMsg, "info") >>
      [] pc = "L95"   -> << AddLog(BuildDoneMsg, "success"),
                            SetStatus(BuildingStatus), AddLog(OptimizingMsg, "info") >>
      [] pc = "L101"  -> << AddLog(VerifyingMsg, "info"),
                            SetStatus(CompleteStatus), AddLog(DeployedMsg, "success") >>

\* (mutant of runDeploymentSimulation: idle is entered before 'Verifying integrity...')
runDeploymentSimulation_EarlyIdle(pc) ==
    CASE pc = "start" -> << SetStatus(AnalyzingStatus), AddLog(InitiatingMsg, "info") >>
      [] pc = "L89"   -> << AddLog(AnalysisDoneMsg, "success"),
                            SetStatus(BuildingStatus), AddLog(ExecBuildMsg, "info") >>
      [] pc = "L95"   -> << AddLog(BuildDoneMsg, "success"),
                            SetStatus(DeployingStatus), AddLog(OptimizingMsg, "info") >>
      [] pc = "L101"  -> << SetStatus(CompleteStatus), AddLog(VerifyingMsg, "info"),
                            AddLog(DeployedMsg, "success") >>

\* (mutant of runDeploymentSimulation: the build result is not logged)
runDeploymentSimulation_NoBuildLog(pc) ==
    CASE pc = "start" -> << SetStatus(AnalyzingStatus), AddLog(InitiatingMsg, "info") >>
      [] pc = "L89"   -> << AddLog(AnalysisDoneMsg, "success"),
                            SetStatus(BuildingStatus), AddLog(ExecBuildMsg, "info") >>
      [] pc = "L95"   -> << SetStatus(DeployingStatus), AddLog(OptimizingMsg, "info") >>
      [] pc = "L101"  -> << AddLog(VerifyingMsg, "info"),
                            SetStatus(CompleteStatus), AddLog(DeployedMsg, "success") >>

\* The setter calls made from position pc up to the next await (or the end).
runDeploymentSimulation(pc) ==
    CASE pc = "start" -> << SetStatus(AnalyzingStatus), AddLog(InitiatingMsg, "info") >>
      [] pc = "L89"   -> << AddLog(AnalysisDoneMsg, "success"),
                            SetStatus(BuildingStatus), AddLog(ExecBuildMsg, "info") >>
      [] pc = "L95"   -> << AddLog(BuildDoneMsg, "success"),
                            SetStatus(DeployingStatus), AddLog(OptimizingMsg, "info") >>
      [] pc = "L101"  -> << AddLog(VerifyingMsg, "info"),
                            SetStatus(CompleteStatus), AddLog(DeployedMsg, "success") >>

\* (mutant of NextPc: the run ends after the build segment)
NextPc_EndsEarly(pc) ==
    CASE pc = "start" -> "L89"
      [] pc = "L89"   -> "L95"
      [] pc = "L95"   -> "done"
      [] pc = "L101"  -> "done"

\* The position the run is suspended at after executing from pc.
NextPc(pc) ==
    CASE pc = "start" -> "L89"
      [] pc = "L89"   -> "L95"
      [] pc = "L95"   -> "L101"
      [] pc = "L101"  -> "done"

(***************************************************************************)
(* processCommand                                                          *)
(***************************************************************************)
\* (mutant of IsBusy: the gate never closes)
IsBusy_Never(st) == FALSE

\* (mutant of IsBusy: only the deploying phase closes the gate)
IsBusy_OnlyDeploying(st) == st.state = "deploying"

\* Line 63: the busy gate, on the status the handler's closure holds.
IsBusy(st) == st.state # "idle"

\* (mutant of IsDeploy: the whole text must be 'deploy')
IsDeploy_Exact(cmd) == Normalize(cmd) = T_deploy

\* Line 78: the text starts a pipeline run.
IsDeploy(cmd) == includes(Normalize(cmd), T_deploy)

\* (mutant of Match: no handler for clear)
Match_NoClear(cmd) ==
    IF Normalize(cmd) = T_help THEN "help"
    ELSE IF IsDeploy(cmd) THEN "deploy"
    ELSE "unrecognized"

\* (mutant of Match: help is compared with the text as typed)
Match_RawHelp(cmd) ==
    IF cmd = T_help THEN "help"
    ELSE IF Normalize(cmd) = T_clear THEN "clear"
    ELSE IF IsDeploy(cmd) THEN "deploy"
    ELSE "unrecognized"

\* Lines 68-82: the handler the text of an accepted command selects.
Match(cmd) ==
    IF Normalize(cmd) = T_help THEN "help"
    ELSE IF Normalize(cmd) = T_clear THEN "clear"
    ELSE IF IsDeploy(cmd) THEN "deploy"
    ELSE "unrecognized"

\* The branch processCommand takes for cmd when its closure holds status st.
Branch(cmd, st) == IF IsBusy(st) THEN "busy" ELSE Match(cmd)

\* (mutant of BranchEffects: an unrecognized command puts the agent in the error state)
BranchEffects_ErrorState(b, cmd) ==
    CASE b = "busy"         -> << AddLog(BusyMsg, "warning") >>
      [] b = "help"         -> << AddLog(HelpMsg, "info") >>
      [] b = "clear"        -> << SetLogsEmpty >>
      [] b = "deploy"       -> runDeploymentSimulation("start")
      [] b = "unrecognized" -> << SetStatus(MkStatus("error", "Command not recognized", 0)),
                                  AddLog(NotRecognizedMsg(cmd), "error") >>

\* (mutant of BranchEffects: clear logs a confirmation)
BranchEffects_ClearConfirms(b, cmd) ==
    CASE b = "busy"         -> << AddLog(BusyMsg, "warning") >>
      [] b = "help"         -> << AddLog(HelpMsg, "info") >>
      [] b = "clear"        -> << SetLogsEmpty, AddLog(Msg("Logs cleared.", <<>>), "info") >>
      [] b = "deploy"       -> runDeploymentSimulation("start")
      [] b = "unrecognized" -> << AddLog(NotRecognizedMsg(cmd), "error") >>

\* The setter calls of each branch (lines 64, 69, 74, 79, 81).
BranchEffects(b, cmd) ==
    CASE b = "busy"         -> << AddLog(BusyMsg, "warning") >>
      [] b = "help"         -> << AddLog(HelpMsg, "info") >>
      [] b = "clear"        -> << SetLogsEmpty >>
      [] b = "deploy"       -> runDeploymentSimulation("start")
      [] b = "unrecognized" -> << AddLog(NotRecognizedMsg(cmd), "error") >>

\* (mutant of processCommand: no return after the busy warning)
processCommand_NoReturn(cmd, st) ==
    [ eff |-> << AddLog(EchoMsg(cmd), "info"), SetInputEmpty >>
              \o (IF IsBusy(st) THEN << AddLog(BusyMsg, "warning") >> ELSE << >>)
              \o BranchEffects(Match(cmd), cmd),
      awaits |-> Match(cmd) = "deploy" ]

\* (mutant of processCommand: the echo is logged after the command is handled)
processCommand_EchoLast(cmd, st) ==
    [ eff |-> << SetInputEmpty >> \o BranchEffects(Branch(cmd, st), cmd)
              \o << AddLog(EchoMsg(cmd), "info") >>,
      awaits |-> Branch(cmd, st) = "deploy" ]

\* processCommand(cmd) up to its return or its first await: eff = its setter
\* calls in order, awaits = it is suspended inside runDeploymentSimulation.
processCommand(cmd, st) ==
    [ eff |-> << AddLog(EchoMsg(cmd), "info"), SetInputEmpty >>
              \o BranchEffects(Branch(cmd, st), cmd),
      awaits |-> Branch(cmd, st) = "deploy" ]

\* Line 109: handleKeyDown calls processCommand(input).
KeySubmits(key, inp) == key = "Enter" /\ inp # <<>>

\* Line 168: the Deploy Now button is disabled.
ButtonDisabled(st) == st.state # "idle"

(***************************************************************************)
(* State                                                                   *)
(***************************************************************************)
VARIABLES
    logs,      \* useState<LogEntry[]>: the log, oldest entry first
    input,     \* useState(''): the input buffer
    status,    \* useState<AgentStatus>: the value after all setStatus calls made so far
    rendered,  \* the status of the last committed render, which the handlers'
               \* closures (line 63) and the button (line 168) read
    runs,      \* the pipeline runs started so far, in order of start:
               \* pc = position, trace = the setter calls the run has made
               \* (history), base = Len(logs) just before its first statement
    subs,      \* the texts processCommand was called with, in order (history)
    last,      \* the most recent call of processCommand (history): the handler
               \* that made it, its text, the status it read, and the setter
               \* calls it made; sub is FALSE until the first call
    ids        \* under IdSpec: ids[k] is LogEntry.id of logs[k] (line 51);
               \* under Spec and FairSpec: not recorded, always << >>

vars == <<logs, input, status, rendered, runs, subs, last, ids>>

Call(op, cmd, eff) ==
    [op |-> op, cmd |-> cmd, sub |-> TRUE, seen |-> rendered, eff |-> eff]

\* The runs that have started and not yet executed their last statement.
InFlight == {i \in 1..Len(runs) : runs[i].pc # "done"}

Init ==
    /\ logs = <<>>
    /\ input = <<>>
    /\ status = InitialStatus
    /\ rendered = InitialStatus
    /\ runs = <<>>
    /\ subs = <<>>
    /\ last = [op |-> "none", cmd |-> <<>>, sub |-> FALSE,
               seen |-> InitialStatus, eff |-> <<>>]
    /\ ids = <<>>

\* s is an initial part of t.
IsPrefixOf(s, t) == Len(s) <= Len(t) /\ s = SubSeq(t, 1, Len(s))

\* The state after the setter calls effs, as [logs, input, status].
After(effs) ==
    ApplyEffects([logs |-> logs, input |-> input, status |-> status], effs)

\* A call processCommand(cmd) from an event handler.  The updates of an
\* event handler are committed before the next event is dispatched, so the
\* render that follows is part of the step.
Submit(op, cmd) ==
    LET call == processCommand(cmd, rendered)
        st   == After(call.eff)
    IN  /\ Len(subs) < MaxSubmits
        /\ logs' = st.logs
        /\ input' = st.input
        /\ status' = st.status
        /\ rendered' = IF st.status # status THEN st.status ELSE rendered
        /\ runs' = IF call.awaits
                   THEN Append(runs, [pc |-> NextPc("start"),
                                      trace |-> runDeploymentSimulation("start"),
                                      base |-> Len(logs) + 1])
                   ELSE runs
        /\ subs' = Append(subs, cmd)
        /\ last' = Call(op, cmd, call.eff)

\* onChange (line 234): setInput(e.target.value).  Typing stops with the
\* last submission the bound allows.
OnChange(t) ==
    /\ Len(subs) < MaxSubmits
    /\ t # input
    /\ input' = t
    /\ UNCHANGED <<logs, status, rendered, runs, subs, last>>

\* handleKeyDown (lines 108-112)
HandleKeyDown(key) ==
    IF KeySubmits(key, input)
    THEN Submit("handleKeyDown", input)
    ELSE UNCHANGED vars

\* onClick of the Deploy Now button (lines 166-168)
OnClick ==
    /\ ~ButtonDisabled(rendered)
    /\ Submit("onClick", T_deploy)

\* The timer a run awaits fires and the run continues to its next await.
\* These setter calls are made outside an event handler; the render that
\* commits them is a later step (Render).
Resume(i) ==
    LET eff == runDeploymentSimulation(runs[i].pc)
        st  == After(eff)
    IN  /\ runs[i].pc # "done"
        /\ logs' = st.logs
        /\ input' = st.input
        /\ status' = st.status
        /\ runs' = [runs EXCEPT ![i].pc = NextPc(@), ![i].trace = @ \o eff]
        /\ UNCHANGED <<rendered, subs, last>>

\* React re-renders App: the handlers now close over the current status.
Render ==
    /\ rendered # status
    /\ rendered' = status
    /\ UNCHANGED <<logs, input, status, runs, subs, last>>

Next ==
    \/ (\E t \in Texts : OnChange(t)) /\ UNCHANGED ids
    \/ (\E k \in Keys : HandleKeyDown(k)) /\ UNCHANGED ids
    \/ OnClick /\ UNCHANGED ids
    \/ (\E i \in 1..Len(runs) : Resume(i)) /\ UNCHANGED ids
    \/ Render /\ UNCHANGED ids

Spec == Init /\ [][Next]_vars

\* Every timer fires and every pending render is committed.
FairSpec ==
    /\ Spec
    /\ WF_vars((\E i \in 1..Len(runs) : Resume(i)) /\ UNCHANGED ids)
    /\ WF_vars(Render /\ UNCHANGED ids)

(***************************************************************************)
(* The ids of the log entries (line 51)                                    *)
(***************************************************************************)
\* Bounds of IdSpec: the length of the log, and the number of distinct
\* leading parts and of distinct remainders of a random number's digits.
MaxIdLog == 4
NumHeads == 2
NumTails == 2

\* The values Math.random() can return, as the digits of toString(36) after
\* "0.": the first nine digits (head) and the digits after them (tail).
Randoms == (1..NumHeads) \X (1..NumTails)

\* Math.random().toString(36).substr(2, 9): the first nine digits.
IdOf(r) == r[1]

\* The ids of the entries of newlogs, given that logs has the ids in ids:
\* the entries kept from logs keep their id, each entry appended by addLog
\* gets the id of a random number of its own, setLogs([]) leaves none.
DrawIds ==
    /\ Len(logs') <= MaxIdLog
    /\ IF IsPrefixOf(logs, logs')
       THEN \E rs \in [1..(Len(logs') - Len(logs)) -> Randoms] :
               ids' = ids \o [k \in 1..(Len(logs') - Len(logs)) |-> IdOf(rs[k])]
       ELSE \E rs \in [1..Len(logs') -> Randoms] :
               ids' = [k \in 1..Len(logs') |-> IdOf(rs[k])]

IdNext ==
    \/ (\E t \in Texts : OnChange(t)) /\ DrawIds
    \/ (\E k \in Keys : HandleKeyDown(k)) /\ DrawIds
    \/ OnClick /\ DrawIds
    \/ (\E i \in 1..Len(runs) : Resume(i)) /\ DrawIds
    \/ Render /\ DrawIds

\* The program with the ids of its log entries recorded.
IdSpec == Init /\ [][IdNext]_vars

TypeOK ==
    /\ input \in Texts
    /\ status.state \in States
    /\ rendered.state \in States
    /\ Len(subs) <= MaxSubmits
    /\ \A i \in 1..Len(logs) : logs[i].level \in Levels
    /\ \A i \in 1..Len(runs) : runs[i].pc \in PipelinePcs

(***************************************************************************)
(* Properties                                                              *)
(***************************************************************************)
Entry(m, lvl) == [message |-> m, level |-> lvl]

\* The entries of the addLog calls among the setter calls effs, in order.
LoggedBy(effs) ==
    LET adds == SelectSeq(effs, LAMBDA e : e.op = "addLog")
    IN  [k \in 1..Len(adds) |-> adds[k].entry]

\* The values of the setStatus calls among the setter calls effs, in order.
StatusesSetBy(effs) ==
    LET sets == SelectSeq(effs, LAMBDA e : e.op = "setStatus")
    IN  [k \in 1..Len(sets) |-> sets[k].value]

IsPrefix(s, t) == Len(s) <= Len(t) /\ s = SubSeq(t, 1, Len(s))

\* This step is a call of processCommand (last' describes it).
Submitted == Len(subs') = Len(subs) + 1

\* C1: at most one pipeline run is in flight at any time: every run but the
\* most recently started one has executed its last statement (the transition
\* to idle and the final log entry), under every interleaving of submissions
\* from the text field or the button with the timers.
C1_SingleFlight ==
    /\ Cardinality(InFlight) <= 1
    /\ \A i \in 1..Len(runs) : i < Len(runs) => runs[i].pc = "done"

\* A deploy-matching submission arrived while a run was in flight.
C1_Witness ==
    /\ last.sub /\ IsDeploy(last.cmd)
    /\ InFlight # {}
    /\ Len(subs) = 2 /\ IsDeploy(subs[1])

\* C2: a submission handled while the status is not idle, whatever its text,
\* appends exactly the echo and then the warning 'Agent is busy. Please
\* wait.', changes no status field and starts no run.  "Not idle" covers
\* both the status the handler reads and the current status value.
C2_BusyRejects ==
    [][ (Submitted /\ (rendered.state # "idle" \/ status.state # "idle"))
        => /\ logs' = logs \o << Entry(EchoMsg(last'.cmd), "info"),
                                 Entry(BusyMsg, "warning") >>
           /\ status' = status
           /\ runs' = runs ]_vars

\* A text that is not a deploy command was rejected during a run.
C2_Witness ==
    /\ last.sub /\ last.cmd = T_clear
    /\ last.seen.state # "idle" /\ status.state # "idle"
    /\ Len(logs) >= 2 /\ logs[Len(logs)] = Entry(BusyMsg, "warning")

\* The four status values of a pipeline run, in order.
StatusSeq == << AnalyzingStatus, BuildingStatus, DeployingStatus, CompleteStatus >>

\* C3: a submission containing 'deploy' that is handled while idle (idle/0 or
\* idle/100) sets the status to analyzing and starts a run; every change of
\* the status is one step along analyzing/10, building/40, deploying/75,
\* idle/100 (no other value in between); and a run that has ended has set
\* exactly these four values in this order.
C3_StatusSequence ==
    [][ /\ (Submitted /\ IsDeploy(last'.cmd) /\ rendered \in {InitialStatus, CompleteStatus})
            => /\ status \in {InitialStatus, CompleteStatus}
               /\ status' = AnalyzingStatus
               /\ Len(runs') = Len(runs) + 1
        /\ status' # status
            => << status, status' >> \in
                 { << InitialStatus, AnalyzingStatus >>, << CompleteStatus, AnalyzingStatus >>,
                   << AnalyzingStatus, BuildingStatus >>, << BuildingStatus, DeployingStatus >>,
                   << DeployingStatus, CompleteStatus >> }
        /\ \A i \in 1..Len(runs') :
              /\ IsPrefix(StatusesSetBy(runs'[i].trace), StatusSeq)
              /\ runs'[i].pc = "done" => StatusesSetBy(runs'[i].trace) = StatusSeq ]_vars

\* A second run, started from idle/100 by a text containing 'deploy', has ended.
C3_Witness ==
    /\ Len(runs) = 2 /\ runs[2].pc = "done"
    /\ subs = << T_deploy, T_ReDeploy >>
    /\ status = CompleteStatus

\* C4: every pipeline run that starts ends, given that each timer fires and
\* each pending render is committed: whatever is submitted meanwhile, the run
\* reaches its last statement, the status becomes (idle, 'Deployment
\* Complete', 100), and the handlers read that idle status, so the next
\* command is accepted.
C4_RunEnds ==
    (InFlight # {}) ~> (/\ InFlight = {}
                        /\ status = CompleteStatus
                        /\ rendered = CompleteStatus)

\* A run has ended although a submission was made (and rejected) during it.
C4_Witness ==
    /\ Len(runs) = 1 /\ runs[1].pc = "done"
    /\ status = CompleteStatus /\ rendered = CompleteStatus
    /\ Len(subs) = 2
    /\ \E k \in 1..Len(logs) : logs[k] = Entry(BusyMsg, "warning")

\* The setter calls of one pipeline run, in the order the claim lists them.
RunOrder ==
    << SetStatus(AnalyzingStatus),
       AddLog(InitiatingMsg, "info"),
       AddLog(AnalysisDoneMsg, "success"),
       SetStatus(BuildingStatus),
       AddLog(ExecBuildMsg, "info"),
       AddLog(BuildDoneMsg, "success"),
       SetStatus(DeployingStatus),
       AddLog(OptimizingMsg, "info"),
       AddLog(VerifyingMsg, "info"),
       SetStatus(CompleteStatus),
       AddLog(DeployedMsg, "success") >>

\* An entry of a rejected submission: an echo or the busy warning.
IsRejectionEntry(e) == e.message.lit = "> " \/ e = Entry(BusyMsg, "warning")

\* The entries logged since run i started, without those of rejected submissions.
OwnEntries(i) ==
    SelectSeq(SubSeq(logs, runs[i].base + 1, Len(logs)), LAMBDA e : ~IsRejectionEntry(e))

\* C5: the status transitions and log appends of a run happen in the listed
\* order: what a run has done so far is an initial part of the list, a run
\* that has ended has done all of it, and in the log the run's entries appear
\* in that order, whatever entries of rejected submissions lie between them.
C5_RunOrder ==
    \A i \in 1..Len(runs) :
        /\ IsPrefix(runs[i].trace, RunOrder)
        /\ runs[i].pc = "done" => runs[i].trace = RunOrder
        /\ (i = Len(runs) /\ (runs[i].pc # "done" \/ rendered.state # "idle"))
              => OwnEntries(i) = LoggedBy(runs[i].trace)

\* A run has just ended with the entries of a rejected submission among its own.
C5_Witness ==
    /\ Len(runs) = 1 /\ runs[1].pc = "done" /\ rendered.state # "idle"
    /\ \E k \in (runs[1].base + 1)..(Len(logs) - 1) : logs[k] = Entry(BusyMsg, "warning")
    /\ logs[Len(logs)] = Entry(DeployedMsg, "success")

\* C6: every call of processCommand, idle or busy, logs the echo '> <text>'
\* at level info exactly once, as its first setter call, before any other
\* log entry or status change of the same call; unless the call clears the
\* log, the echo is the first entry after the entries already there.
C6_EchoFirst ==
    [][ Submitted
        => /\ last'.cmd # <<>>
           /\ last'.eff[1] = AddLog(EchoMsg(last'.cmd), "info")
           /\ Cardinality({k \in 1..Len(last'.eff) :
                              /\ last'.eff[k].op = "addLog"
                              /\ last'.eff[k].entry.message.lit = "> "}) = 1
           /\ (\A k \in 1..Len(last'.eff) : last'.eff[k].op # "setLogs")
                => /\ Len(logs') > Len(logs)
                   /\ SubSeq(logs', 1, Len(logs)) = logs
                   /\ logs'[Len(logs) + 1] = Entry(EchoMsg(last'.cmd), "info") ]_vars

\* The button started a run from a log that was not empty: the echo precedes
\* the run's first entry and the status has changed.
C6_Witness ==
    /\ last.sub /\ last.op = "onClick"
    /\ Len(subs) = 2 /\ Len(runs) = 1 /\ runs[1].base = 3
    /\ status = AnalyzingStatus
    /\ logs[3] = Entry(EchoMsg(T_deploy), "info")
    /\ logs[4] = Entry(InitiatingMsg, "info")

\* C7 as stated: submitting 'clear' leaves a log of length 0, whatever the
\* agent state at the time.
C7_Original ==
    [][ (Submitted /\ last'.cmd = T_clear) => Len(logs') = 0 ]_vars

\* C7 amended: 'clear' handled while idle leaves a log of length 0 (its own
\* echo removed too) and the status unchanged; handled while busy it is
\* rejected, the log growing by the echo and the warning.
C7_ClearWhenIdle ==
    [][ (Submitted /\ last'.cmd = T_clear)
        => IF rendered.state = "idle"
           THEN logs' = <<>> /\ status' = status /\ runs' = runs
           ELSE logs' = logs \o << Entry(EchoMsg(T_clear), "info"),
                                   Entry(BusyMsg, "warning") >> ]_vars

\* 'clear' was accepted after a whole run had filled the log.
C7_Witness ==
    /\ last.sub /\ last.cmd = T_clear /\ last.seen = CompleteStatus
    /\ subs = << T_deploy, T_clear >>
    /\ Len(runs) = 1 /\ runs[1].pc = "done"
    /\ logs = <<>>

\* C8: a text handled while idle that, trimmed and lowercased, is neither
\* 'help' nor 'clear' and does not contain 'deploy' ('status', 'analyze',
\* 'help me' and a single blank among them) changes no status field, starts
\* no run and appends, after the echo, exactly one error entry 'Command not
\* recognized: ' followed by the text as typed.
C8_Unrecognized ==
    [][ ( /\ Submitted
          /\ rendered.state = "idle"
          /\ \/ last'.cmd \in {T_status, T_analyze, T_help_me, T_space}
             \/ /\ Normalize(last'.cmd) \notin {T_help, T_clear}
                /\ ~includes(Normalize(last'.cmd), T_deploy) )
        => /\ status' = status
           /\ runs' = runs
           /\ logs' = logs \o << Entry(EchoMsg(last'.cmd), "info"),
                                 Entry(Msg("Command not recognized: ", last'.cmd), "error") >> ]_vars

\* 'status' and then 'analyze' were submitted from the fresh state.
C8_Witness ==
    /\ last.sub /\ last.cmd = T_analyze /\ last.seen = InitialStatus
    /\ subs = << T_status, T_analyze >>
    /\ status = InitialStatus /\ runs = <<>>
    /\ Len(logs) = 4 /\ logs[2].level = "error" /\ logs[4].level = "error"

\* C9 as stated: Enter on an input buffer that is empty or only whitespace
\* never reaches processCommand.
C9_BlankNeverSubmits ==
    [][ (Submitted /\ last'.op = "handleKeyDown") => trim(last'.cmd) # <<>> ]_vars

\* help and then deploy were submitted from the fresh state, and the run has ended.
C10_Settled ==
    /\ subs = << T_help, T_deploy >>
    /\ Len(runs) = 1 /\ runs[1].pc = "done"

\* C10 as stated: after help, deploy and the end of the run the status is
\* (idle, 'Deployment Complete', 100) and the log holds, after the two help
\* entries, the deploy echo plus nine pipeline messages.
C10_Original ==
    C10_Settled => status = CompleteStatus /\ Len(logs) = 2 + 1 + 9

\* C10 amended: after help, deploy and the end of the run the status is
\* (idle, 'Deployment Complete', 100) and the log holds exactly, in order,
\* the two help entries, the deploy echo and the seven messages the pipeline
\* logs (ten entries).
C10_EndToEnd ==
    C10_Settled
    => /\ status = CompleteStatus
       /\ logs = << Entry(EchoMsg(T_help), "info"),
                    Entry(HelpMsg, "info"),
                    Entry(EchoMsg(T_deploy), "info"),
                    Entry(InitiatingMsg, "info"),
                    Entry(AnalysisDoneMsg, "success"),
                    Entry(ExecBuildMsg, "info"),
                    Entry(BuildDoneMsg, "success"),
                    Entry(OptimizingMsg, "info"),
                    Entry(VerifyingMsg, "info"),
                    Entry(DeployedMsg, "success") >>

\* The scenario has run to its end and the idle status is rendered.
C10_Witness ==
    /\ C10_Settled
    /\ last.op = "handleKeyDown"
    /\ rendered = CompleteStatus
    /\ Len(logs) = 10

\* C11: a text that is 'help' after trim and lowercase, handled while idle,
\* appends after the echo exactly one info entry, the list of the commands
\* deploy, status, clear, analyze, and changes no status field and starts no
\* run; as the first submission it leaves a log of 2 entries and the status
\* (idle, 'Waiting for command...', 0).
C11_Help ==
    [][ (Submitted /\ rendered.state = "idle"
           /\ (last'.cmd \in {T_help, T_HELP_pad} \/ Normalize(last'.cmd) = T_help))
        => /\ logs' = logs \o
                 << Entry(EchoMsg(last'.cmd), "info"),
                    Entry(Msg("Available commands: deploy, status, clear, analyze", <<>>),
                          "info") >>
           /\ status' = status
           /\ rendered' = rendered
           /\ runs' = runs
           /\ subs = <<>>
                => Len(logs') = 2
                   /\ status' = MkStatus("idle", "Waiting for command...", 0) ]_vars

\* ' HELP ' was the first submission.
C11_Witness ==
    /\ subs = << T_HELP_pad >>
    /\ last.sub /\ last.seen.state = "idle"
    /\ Len(logs) = 2 /\ logs[2] = Entry(HelpMsg, "info")
    /\ status = InitialStatus

\* The states a running pipeline shows.
RunningStates == {"analyzing", "building", "deploying"}

\* C12: whenever the state is idle no pipeline run is executing, and while a
\* run is executing the state is analyzing, building or deploying, both in
\* the current status and in the status the handlers read, so that every
\* submission handled during a run reads a non-idle state.
C12_IdleMeansNoRun ==
    /\ status.state = "idle" => InFlight = {}
    /\ InFlight # {} => /\ status.state \in RunningStates
                        /\ rendered.state \in RunningStates

\* A submission was handled during a run, when the handlers still read the
\* status of an earlier phase than the current one.
C12_Witness ==
    /\ InFlight # {}
    /\ status.state = "deploying" /\ rendered.state = "analyzing"
    /\ last.sub /\ last.seen.state = "analyzing"
    /\ Len(subs) = 2
    /\ logs[Len(logs)] = Entry(BusyMsg, "warning")

\* C13: a submission rejected as busy is dropped, not queued: a run starts
\* in a step exactly when that step is a deploy-matching submission handled
\* while idle, and then exactly one run starts.  So the number of runs ever
\* started is the number of such submissions, and after a run has returned
\* to idle none starts before the next such submission.
C13_DroppedNotQueued ==
    [][ Len(runs') = Len(runs)
                        + (IF /\ Submitted
                              /\ includes(Normalize(last'.cmd), T_deploy)
                              /\ rendered.state = "idle"
                           THEN 1 ELSE 0) ]_vars

\* Two deploy commands were submitted, the second one during the run of the
\* first; that run has ended, the idle status is rendered, and no second
\* run has started.
C13_Witness ==
    /\ subs = << T_deploy, T_deploy_clear >>
    /\ last.sub /\ last.seen.state # "idle"
    /\ Len(runs) = 1 /\ runs[1].pc = "done"
    /\ status = CompleteStatus /\ rendered = CompleteStatus

\* The progress values of the setStatus calls among effs, in order.
ProgressSetBy(effs) ==
    [k \in 1..Len(StatusesSetBy(effs)) |-> StatusesSetBy(effs)[k].progress]

\* C14: within a run the progress never decreases: no step taken while a run
\* is in flight lowers it, whatever is submitted meanwhile; the values a run
\* sets are 10, 40, 75, 100 in this order, and a run that has ended has set
\* all four, the last being 100.
C14_ProgressMonotone ==
    [][ /\ InFlight # {} => status'.progress >= status.progress
        /\ \A i \in 1..Len(runs') :
              /\ IsPrefix(ProgressSetBy(runs'[i].trace), << 10, 40, 75, 100 >>)
              /\ runs'[i].pc # "done"
                   => status'.progress = ProgressSetBy(runs'[i].trace)[Len(ProgressSetBy(runs'[i].trace))]
              /\ runs'[i].pc = "done"
                   => ProgressSetBy(runs'[i].trace) = << 10, 40, 75, 100 >> ]_vars

\* A second run, started at progress 100, is in its build phase after a
\* first run has gone through all four values.
C14_Witness ==
    /\ Len(runs) = 2 /\ runs[1].pc = "done" /\ runs[2].pc = "L95"
    /\ status.progress = 40
    /\ ProgressSetBy(runs[2].trace) = << 10, 40 >>

\* The five consistent status values.
ConsistentStatuses ==
    { [state |-> "idle",      currentTask |-> "Waiting for command...",            progress |-> 0],
      [state |-> "analyzing", currentTask |-> "Analyzing repository structure...", progress |-> 10],
      [state |-> "building",  currentTask |-> "Running build scripts...",          progress |-> 40],
      [state |-> "deploying", currentTask |-> "Uploading assets to edge...",       progress |-> 75],
      [state |-> "idle",      currentTask |-> "Deployment Complete",               progress |-> 100] }

\* C15: the three status fields are replaced together: the current status,
\* and the status the handlers read, is always one of the five triples
\* idle/'Waiting for command...'/0, analyzing/.../10, building/.../40,
\* deploying/.../75, idle/'Deployment Complete'/100; idle goes with no
\* progress other than 0 or 100.
C15_ConsistentStatus ==
    /\ status \in ConsistentStatuses
    /\ rendered \in ConsistentStatuses
    /\ status.state = "idle" => status.progress \in {0, 100}

\* A run has just ended: the status is idle/100 while the handlers still
\* read deploying/75.
C15_Witness ==
    /\ status = [state |-> "idle", currentTask |-> "Deployment Complete", progress |-> 100]
    /\ rendered.state = "deploying" /\ rendered.progress = 75
    /\ InFlight = {} /\ Len(runs) = 1

\* C16: the state 'error' is unreachable: neither the current status nor
\* the status the handlers read is ever in it, and no call of processCommand,
\* an unrecognized command and a busy rejection included, and no pipeline
\* run has called setStatus with it.
C16_NoErrorState ==
    /\ status.state # "error"
    /\ rendered.state # "error"
    /\ \A k \in 1..Len(last.eff) :
          last.eff[k].op = "setStatus" => last.eff[k].value.state # "error"
    /\ \A i \in 1..Len(runs) : \A k \in 1..Len(runs[i].trace) :
          runs[i].trace[k].op = "setStatus" => runs[i].trace[k].value.state # "error"

\* Two unrecognized commands were handled while idle: the log has their two
\* error entries and the state is still idle.
C16_Witness ==
    /\ subs = << T_help_me, T_status >>
    /\ last.sub /\ last.seen.state = "idle"
    /\ logs[2].level = "error" /\ logs[4].level = "error"
    /\ status.state = "idle" /\ rendered.state = "idle"

\* The handler each text is to select: ' HELP ' as 'help'; ' ReDeploy ' and
\* 'deploy clear' as deploy, 'deploy' being part of them; 'help me' none.
ExpectedMatch(t) ==
    CASE t \in {T_help, T_HELP_pad}                   -> "help"
      [] t = T_clear                                  -> "clear"
      [] t \in {T_deploy, T_ReDeploy, T_deploy_clear} -> "deploy"
      [] OTHER                                        -> "unrecognized"

\* C17: for a submission handled while idle the text is matched trimmed and
\* lowercased: a run starts if and only if that text contains 'deploy'
\* anywhere, and 'help' and 'clear' are matched only as the whole text:
\* exactly the texts 'help' and ' HELP ' get the help entry, exactly 'clear'
\* empties the log, and 'help me' and 'deploy clear' do neither.
C17_Matching ==
    [][ (Submitted /\ rendered.state = "idle")
        => /\ Len(runs') = Len(runs) + 1 <=> includes(Normalize(last'.cmd), T_deploy)
           /\ Len(runs') = Len(runs) + 1 <=> ExpectedMatch(last'.cmd) = "deploy"
           /\ Len(runs') = Len(runs) + 1 => status' = AnalyzingStatus
           /\ ExpectedMatch(last'.cmd) = "help"
                <=> logs' = logs \o << Entry(EchoMsg(last'.cmd), "info"),
                                       Entry(HelpMsg, "info") >>
           /\ ExpectedMatch(last'.cmd) = "clear" <=> logs' = <<>>
           /\ ExpectedMatch(last'.cmd) = "unrecognized"
                <=> (Len(logs') > 0 /\ logs'[Len(logs')].level = "error") ]_vars

\* 'deploy clear' was the first submission and has started a run.
C17_Witness ==
    /\ subs = << T_deploy_clear >>
    /\ Len(runs) = 1 /\ runs[1].pc = "L89"
    /\ status = AnalyzingStatus
    /\ logs = << Entry(EchoMsg(T_deploy_clear), "info"), Entry(InitiatingMsg, "info") >>

\* The seven entries a pipeline run logs.
SevenEntries ==
    << Entry(InitiatingMsg, "info"), Entry(AnalysisDoneMsg, "success"),
       Entry(ExecBuildMsg, "info"), Entry(BuildDoneMsg, "success"),
       Entry(OptimizingMsg, "info"), Entry(VerifyingMsg, "info"),
       Entry(DeployedMsg, "success") >>

\* C18: the log is append-only: every step other than a 'clear' handled
\* while idle leaves the previous log as an unmodified initial part of the
\* new log; so no step taken while a run is in flight loses an entry, and
\* in the step that ends a run all seven of its entries are in the log, in
\* order, after the place where the run started.
C18_AppendOnly ==
    [][ /\ ~(Submitted /\ Normalize(last'.cmd) = T_clear /\ rendered.state = "idle")
             => IsPrefix(logs, logs')
        /\ InFlight # {} => IsPrefix(logs, logs')
        /\ \A i \in 1..Len(runs) :
              (runs[i].pc # "done" /\ runs'[i].pc = "done")
              => SelectSeq(SubSeq(logs', runs[i].base + 1, Len(logs')),
                           LAMBDA e : ~IsRejectionEntry(e)) = SevenEntries ]_vars

\* 'clear' was submitted during a run and rejected; the run has ended with
\* the echo of deploy, its seven entries and the two of the rejection.
C18_Witness ==
    /\ subs = << T_deploy, T_clear >>
    /\ last.sub /\ last.seen.state # "idle"
    /\ Len(runs) = 1 /\ runs[1].pc = "done"
    /\ Len(logs) = 10
    /\ logs[1] = Entry(EchoMsg(T_deploy), "info")

\* C19: the entries in the log have pairwise distinct ids: addLog never
\* gives an entry an id that an entry already in the log carries.
C19_DistinctIds ==
    /\ Len(ids) = Len(logs)
    /\ \A i, j \in 1..Len(ids) : i # j => ids[i] # ids[j]

\* The previous call of processCommand was a 'clear' handled while idle.
PreviousWasClear ==
    /\ subs # <<>>
    /\ Normalize(subs[Len(subs)]) = T_clear
    /\ last.sub /\ last.seen.state = "idle"

\* C20: clear is idempotent: a 'clear' handled while idle right after
\* another one finds the log empty and leaves it empty, as the first one
\* left it, and the status is the one the first 'clear' found, unchanged by
\* both.
C20_ClearIdempotent ==
    [][ (Submitted /\ Normalize(last'.cmd) = T_clear /\ rendered.state = "idle"
           /\ PreviousWasClear)
        => /\ logs = <<>>
           /\ logs' = <<>>
           /\ status = last.seen
           /\ status' = status
           /\ rendered' = rendered
           /\ runs' = runs ]_vars

\* 'clear' was submitted twice in a row from the fresh state.
C20_Witness ==
    /\ subs = << T_clear, T_clear >>
    /\ last.sub /\ last.cmd = T_clear /\ last.seen = InitialStatus
    /\ logs = <<>>
    /\ status = InitialStatus

====
